---------------------------- MODULE Spec2Model ----------------------------
(***************************************************************************)
(* Model of tinkvu/resume-gen: the JSON based application (src/app.py) and *)
(* the markup based application (src/app-working-pdfnotwell.py).           *)
(*                                                                         *)
(* Python str values are TLA+ strings; TLC evaluates Len, \o, SubSeq, Head *)
(* and Tail on them, so every conversion below works on the characters.    *)
(* Scans over characters are written with indices (CHOOSE / \A), and       *)
(* recursion runs per chunk, per line or per list element only.            *)
(***************************************************************************)
EXTENDS Integers, Sequences, FiniteSets, TLC

VARIABLES
    pc,           \* position of the current script run of main()
    click,        \* the button that triggered the current run
    none_as_text, \* the Streamlit build shows str(None) for a default of None
    resume_data,  \* st.session_state.resume_data
    generated,    \* st.session_state.generated
    content,      \* raw text returned by the generative service in this run
    result,       \* what get_customized_resume_json returned in this run
    shown,        \* the elements the current run has put on the page
    preview,      \* text preview: create_text_resume(resume_data)
    tmp,          \* number of temporary files on disk
    pdf,          \* canvas calls written to the temporary file
    edits,        \* number of runs in which the user typed into the editor
    text,         \* textwrap: the text handed to textwrap.wrap
    width,        \* textwrap: the width handed to textwrap.wrap
    wrapped,      \* textwrap: the returned list of lines
    parsed        \* markup: the name and the sections parsed from the content

vars == <<pc, click, none_as_text, resume_data, generated, content, result, shown, preview,
          tmp, pdf, edits, text, width, wrapped, parsed>>

-----------------------------------------------------------------------------
(* Python str primitives                                                   *)

\* F(v): the value v gets the name that F gives it, as in "x = v; return F(x)"
Bind(v, F(_)) == CHOOSE y \in { F(x) : x \in {v} } : TRUE

Ch(s, i) == SubSeq(s, i, i)

Max(a, b) == IF a >= b THEN a ELSE b

Min(a, b) == IF a <= b THEN a ELSE b

\* s[a-1:b] for 1-based inclusive a..b, empty when the range is empty
Slice(s, a, b) == IF a > b \/ a > Len(s) THEN "" ELSE SubSeq(s, Max(a, 1), Min(b, Len(s)))

RECURSIVE Rep(_, _)
Rep(c, n) ==
    IF n <= 0 THEN ""
    ELSE LET h == Rep(c, n \div 2) IN h \o h \o (IF n % 2 = 1 THEN c ELSE "")

\* string.whitespace without the tab (no input of the model holds a tab)
IsSpace(c) == c \in {" ", "\n", "\r"}

InChars(c, chars) == \E i \in 1..Len(chars) : Ch(chars, i) = c

LetterChars == "abcdefghijklmnopqrstuvwxyzABCDEFGHIJKLMNOPQRSTUVWXYZ_"

IsLetter(c) == InChars(c, LetterChars)

\* str.find(sub, from): lowest 1-based index >= from where sub occurs, 0 if none
Find(s, sub, from) ==
    LET last == Len(s) - Len(sub) + 1
        At(i) == SubSeq(s, i, i + Len(sub) - 1) = sub
    IN IF \E i \in from..last : At(i)
       THEN CHOOSE i \in from..last : At(i) /\ \A j \in from..(i - 1) : ~At(j)
       ELSE 0

StartsWith(s, p) == Len(s) >= Len(p) /\ SubSeq(s, 1, Len(p)) = p

EndsWith(s, p) == Len(s) >= Len(p) /\ SubSeq(s, Len(s) - Len(p) + 1, Len(s)) = p

\* str.strip(chars)
StripChars(s, chars) ==
    LET n == Len(s)
        Keep(i) == ~InChars(Ch(s, i), chars)
    IN IF \A i \in 1..n : ~Keep(i) THEN ""
       ELSE LET lo == CHOOSE i \in 1..n : Keep(i) /\ \A j \in 1..(i - 1) : ~Keep(j)
                hi == CHOOSE i \in 1..n : Keep(i) /\ \A j \in (i + 1)..n : ~Keep(j)
            IN SubSeq(s, lo, hi)

\* str.strip()
Strip(s) == StripChars(s, " \n\r")

\* str.split(sep)
RECURSIVE Split(_, _)
Split(s, sep) ==
    LET i == Find(s, sep, 1)
    IN IF i = 0 THEN <<s>>
       ELSE <<Slice(s, 1, i - 1)>> \o Split(Slice(s, i + Len(sep), Len(s)), sep)

\* str.split(sep, 1)
SplitOnce(s, sep) ==
    LET i == Find(s, sep, 1)
    IN IF i = 0 THEN <<s>>
       ELSE <<Slice(s, 1, i - 1), Slice(s, i + Len(sep), Len(s))>>

\* sep.join(parts)
RECURSIVE Join(_, _)
Join(sep, parts) ==
    IF parts = <<>> THEN ""
    ELSE IF Len(parts) = 1 THEN parts[1]
    ELSE parts[1] \o sep \o Join(sep, Tail(parts))

-----------------------------------------------------------------------------
(* textwrap.wrap(text, width) with the TextWrapper defaults the calls use: *)
(* replace_whitespace, drop_whitespace, break_long_words, break_on_hyphens *)

\* TextWrapper._munge_whitespace: every whitespace character becomes a space
RECURSIVE Munge(_)
Munge(s) ==
    IF Len(s) = 0 THEN ""
    ELSE IF Len(s) = 1 THEN (IF IsSpace(s) THEN " " ELSE s)
    ELSE LET h == Len(s) \div 2
         IN Munge(SubSeq(s, 1, h)) \o Munge(SubSeq(s, h + 1, Len(s)))

\* wordsep_re, "hyphenated word": a hyphen at p ends a chunk when two letters (or
\* letter, hyphen, letter) precede it and letter, optional hyphen, letter follow
HyphenBreak(s, p) ==
    /\ Ch(s, p) = "-"
    /\ \/ (p >= 3 /\ IsLetter(Ch(s, p - 2)) /\ IsLetter(Ch(s, p - 1)))
       \/ (p >= 4 /\ IsLetter(Ch(s, p - 3)) /\ Ch(s, p - 2) = "-" /\ IsLetter(Ch(s, p - 1)))
    /\ p + 2 <= Len(s)
    /\ IsLetter(Ch(s, p + 1))
    /\ \/ IsLetter(Ch(s, p + 2))
       \/ (p + 3 <= Len(s) /\ Ch(s, p + 2) = "-" /\ IsLetter(Ch(s, p + 3)))

\* wordsep_re: the end of the chunk that starts at i (a whitespace run, or a word
\* up to its end or up to and including a breaking hyphen)
ChunkEnd(s, i) ==
    LET n == Len(s)
    IN IF Ch(s, i) = " "
       THEN CHOOSE e \in i..n :
                /\ \A j \in i..e : Ch(s, j) = " "
                /\ (e = n \/ Ch(s, e + 1) # " ")
       ELSE LET Ends(e) == \/ e = n
                           \/ Ch(s, e + 1) = " "
                           \/ (e > i /\ HyphenBreak(s, e))
            IN CHOOSE e \in i..n : Ends(e) /\ \A j \in i..(e - 1) : ~Ends(j)

\* TextWrapper._split: the chunks of the munged text from position i on
RECURSIVE SplitChunks(_, _)
SplitChunks(s, i) ==
    IF i > Len(s) THEN <<>>
    ELSE LET e == ChunkEnd(s, i)
         IN <<SubSeq(s, i, e)>> \o SplitChunks(s, e + 1)

RECURSIVE SumLen(_)
SumLen(parts) == IF parts = <<>> THEN 0 ELSE Len(parts[1]) + SumLen(Tail(parts))

\* the inner "while chunks" loop of _wrap_chunks: move chunks to the current line
\* while they fit; returns <<cur_line, remaining chunks>>
RECURSIVE FillLine(_, _, _)
FillLine(chunks, cur, w) ==
    IF chunks # <<>> /\ SumLen(cur) + Len(chunks[1]) <= w
    THEN FillLine(Tail(chunks), Append(cur, chunks[1]), w)
    ELSE <<cur, chunks>>

\* str.rfind("-", 0, hi): highest 0-based index below hi that holds a hyphen, -1 if none
RFindHyphen(chunk, hi) ==
    LET Is(i) == Ch(chunk, i) = "-"
        top == Min(hi, Len(chunk))
    IN IF \E i \in 1..top : Is(i)
       THEN (CHOOSE i \in 1..top : Is(i) /\ \A j \in (i + 1)..top : ~Is(j)) - 1
       ELSE -1

\* TextWrapper._handle_long_word with break_long_words: the first chunk is cut
\* after space_left characters (or after its last hyphen within them)
HandleLongWord(chunks, cur, w) ==
    Bind(IF w < 1 THEN 1 ELSE w - SumLen(cur), LAMBDA space_left :
    Bind(chunks[1], LAMBDA chunk :
    Bind(IF Len(chunk) > space_left THEN RFindHyphen(chunk, space_left) ELSE -1, LAMBDA hyphen :
    Bind(IF hyphen > 0 /\ \E i \in 1..hyphen : Ch(chunk, i) # "-"
         THEN hyphen + 1 ELSE space_left, LAMBDA end :
    <<Append(cur, Slice(chunk, 1, end)),
      <<Slice(chunk, end + 1, Len(chunk))>> \o Tail(chunks)>>))))

\* TextWrapper._wrap_chunks: one iteration of the outer loop per line
RECURSIVE WrapChunks(_, _, _)
WrapChunks(chunks, lines, w) ==
    IF chunks = <<>> THEN lines
    ELSE
    Bind(FillLine(IF Strip(chunks[1]) = "" /\ lines # <<>> THEN Tail(chunks) ELSE chunks,
                  <<>>, w), LAMBDA f :
    Bind(IF f[2] # <<>> /\ Len(f[2][1]) > w THEN HandleLongWord(f[2], f[1], w) ELSE f, LAMBDA g :
    Bind(IF g[1] # <<>> /\ Strip(g[1][Len(g[1])]) = ""
         THEN SubSeq(g[1], 1, Len(g[1]) - 1) ELSE g[1], LAMBDA cur :
    WrapChunks(g[2], IF cur # <<>> THEN Append(lines, Join("", cur)) ELSE lines, w))))

\* textwrap.wrap(text, width=w)
Wrap(s, w) == WrapChunks(SplitChunks(Munge(s), 1), <<>>, w)

\* str.split(): the whitespace-delimited tokens of s from position i on
RECURSIVE TokensFrom(_, _)
TokensFrom(s, i) ==
    LET n == Len(s)
    IN IF \A j \in i..n : IsSpace(Ch(s, j)) THEN <<>>
       ELSE LET Stop(e) == e = n \/ IsSpace(Ch(s, e + 1))
            IN Bind(CHOOSE j \in i..n : ~IsSpace(Ch(s, j)) /\ \A k \in i..(j - 1) : IsSpace(Ch(s, k)),
                    LAMBDA a :
               Bind(CHOOSE e \in a..n : Stop(e) /\ \A k \in a..(e - 1) : ~Stop(k), LAMBDA b :
               <<SubSeq(s, a, b)>> \o TokensFrom(s, b + 1)))

Tokens(s) == TokensFrom(s, 1)

-----------------------------------------------------------------------------
(* Python values, as json.loads returns them                               *)

PyNone == [t |-> "null"]

PyStr(s) == [t |-> "str", s |-> s]

PyNum(n) == [t |-> "num", n |-> n]

PyList(l) == [t |-> "list", l |-> l]

\* a dict is a function from its keys to their values
PyDict(d) == [t |-> "dict", d |-> d]

EmptyDict == [k \in {} |-> PyNone]

IsStr(v) == v.t = "str"

IsList(v) == v.t = "list"

IsDict(v) == v.t = "dict"

\* bool(v)
Truthy(v) ==
    CASE v.t = "null" -> FALSE
      [] v.t = "str" -> v.s # ""
      [] v.t = "num" -> v.n # 0
      [] v.t = "list" -> v.l # <<>>
      [] v.t = "dict" -> DOMAIN v.d # {}

HasKey(v, k) == k \in DOMAIN v.d

\* dict.get(k, default) on a dict v
Get(v, k, default) == IF HasKey(v, k) THEN v.d[k] ELSE default

\* d[k] = x
SetKey(v, k, x) == PyDict((k :> x) @@ v.d)

\* an f-string field {v} of a str or None value
FStr(v) == IF v.t = "str" THEN v.s ELSE "None"

-----------------------------------------------------------------------------
(* json.loads(text), for documents made of objects, arrays, strings,       *)
(* non-negative integers and null                                          *)

JsonFail == [ok |-> FALSE, v |-> PyNone, i |-> 0]

JsonOk(v, i) == [ok |-> TRUE, v |-> v, i |-> i]

IsJsonSpace(c) == c \in {" ", "\n", "\r", "\t"}

Digits == "0123456789"

\* the first index >= i that holds no JSON whitespace (Len(s) + 1 at the end)
SkipWs(s, i) ==
    LET n == Len(s)
    IN IF \A j \in i..n : IsJsonSpace(Ch(s, j)) THEN n + 1
       ELSE CHOOSE j \in i..n : ~IsJsonSpace(Ch(s, j)) /\ \A k \in i..(j - 1) : IsJsonSpace(Ch(s, k))

\* the character an escape \c stands for; "" when the model's inputs never use it
Unescape(c) ==
    CASE c = "\"" -> "\""
      [] c = "\\" -> "\\"
      [] c = "/" -> "/"
      [] c = "n" -> "\n"
      [] c = "r" -> "\r"
      [] OTHER -> ""

\* py_scanstring from index i, the first character after the opening quote:
\* up to the closing quote, an escape or a control character (strict mode)
RECURSIVE ScanString(_, _, _)
ScanString(s, i, acc) ==
    LET n == Len(s)
        Special(j) == Ch(s, j) \in {"\"", "\\", "\n", "\r", "\t"}
    IN IF \A j \in i..n : ~Special(j) THEN JsonFail
       ELSE Bind(CHOOSE j \in i..n : Special(j) /\ \A k \in i..(j - 1) : ~Special(k), LAMBDA j :
            Bind(acc \o Slice(s, i, j - 1), LAMBDA part :
            IF Ch(s, j) = "\"" THEN JsonOk(PyStr(part), j + 1)
            ELSE IF Ch(s, j) = "\\" /\ j < n /\ Unescape(Ch(s, j + 1)) # ""
            THEN ScanString(s, j + 2, part \o Unescape(Ch(s, j + 1)))
            ELSE JsonFail))

DigitValue(c) == (CHOOSE k \in 1..10 : Ch(Digits, k) = c) - 1

RECURSIVE DigitsValue(_)
DigitsValue(ds) ==
    IF ds = "" THEN 0
    ELSE 10 * DigitsValue(SubSeq(ds, 1, Len(ds) - 1)) + DigitValue(Ch(ds, Len(ds)))

\* NUMBER_RE for a non-negative integer: 0, or a digit run that starts with 1-9
ScanNumber(s, i) ==
    LET n == Len(s)
        IsDigit(j) == InChars(Ch(s, j), Digits)
    IN Bind(IF Ch(s, i) = "0" THEN i
            ELSE CHOOSE j \in i..n : (\A k \in i..j : IsDigit(k)) /\ (j = n \/ ~IsDigit(j + 1)),
            LAMBDA e : JsonOk(PyNum(DigitsValue(SubSeq(s, i, e))), e + 1))

RECURSIVE ScanOnce(_, _)
RECURSIVE ScanArray(_, _, _)
RECURSIVE ScanObject(_, _, _)

\* one element of an array: the value from index i and the index of the "," or
\* "]" after it
ScanElement(s, i) ==
    Bind(ScanOnce(s, SkipWs(s, i)), LAMBDA r :
         IF r.ok THEN JsonOk(r.v, SkipWs(s, r.i)) ELSE JsonFail)

\* JSONArray after "[" or after a ",": the next element, then "," or "]"
ScanArray(s, i, acc) ==
    Bind(ScanElement(s, i), LAMBDA r :
         IF ~r.ok \/ r.i > Len(s) THEN JsonFail
         ELSE IF Ch(s, r.i) = "]" THEN JsonOk(PyList(Append(acc, r.v)), r.i + 1)
         ELSE IF Ch(s, r.i) = "," THEN ScanArray(s, r.i + 1, Append(acc, r.v))
         ELSE JsonFail)

\* the value of a member whose key ends before index c, where the ":" stands
ScanValue(s, c) ==
    IF c <= Len(s) /\ Ch(s, c) = ":"
    THEN Bind(ScanOnce(s, SkipWs(s, c + 1)), LAMBDA val :
              IF val.ok THEN JsonOk(val.v, SkipWs(s, val.i)) ELSE JsonFail)
    ELSE JsonFail

\* one member of an object, "key" : value, with the key at index k0; i is the
\* index of the "," or "}" after it
ScanMember(s, k0) ==
    IF k0 <= Len(s) /\ Ch(s, k0) = "\""
    THEN Bind(ScanString(s, k0 + 1, ""), LAMBDA key :
         IF ~key.ok THEN [ok |-> FALSE, k |-> "", v |-> PyNone, i |-> 0]
         ELSE Bind(ScanValue(s, SkipWs(s, key.i)), LAMBDA val :
                   [ok |-> val.ok, k |-> key.v.s, v |-> val.v, i |-> val.i]))
    ELSE [ok |-> FALSE, k |-> "", v |-> PyNone, i |-> 0]

\* JSONObject after "{" or after a ",": a member, then "," or "}"
ScanObject(s, i, acc) ==
    Bind(ScanMember(s, SkipWs(s, i)), LAMBDA m :
         IF ~m.ok \/ m.i > Len(s) THEN JsonFail
         ELSE IF Ch(s, m.i) = "}" THEN JsonOk(SetKey(acc, m.k, m.v), m.i + 1)
         ELSE IF Ch(s, m.i) = "," THEN ScanObject(s, m.i + 1, SetKey(acc, m.k, m.v))
         ELSE JsonFail)

\* scanner.scan_once: the value that starts at index i
ScanOnce(s, i) ==
    LET n == Len(s)
        c == IF i <= n THEN Ch(s, i) ELSE ""
    IN IF c = "" THEN JsonFail
       ELSE IF c = "\"" THEN ScanString(s, i + 1, "")
       ELSE IF c = "{"
       THEN Bind(SkipWs(s, i + 1), LAMBDA j :
                 IF j <= n /\ Ch(s, j) = "}" THEN JsonOk(PyDict(EmptyDict), j + 1)
                 ELSE ScanObject(s, i + 1, PyDict(EmptyDict)))
       ELSE IF c = "["
       THEN Bind(SkipWs(s, i + 1), LAMBDA j :
                 IF j <= n /\ Ch(s, j) = "]" THEN JsonOk(PyList(<<>>), j + 1)
                 ELSE ScanArray(s, i + 1, <<>>))
       ELSE IF Slice(s, i, i + 3) = "null" THEN JsonOk(PyNone, i + 4)
       ELSE IF InChars(c, Digits) THEN ScanNumber(s, i)
       ELSE JsonFail

\* json.loads(s): JSONDecoder.decode, one value between optional whitespace;
\* ok = FALSE stands for json.JSONDecodeError
JsonLoads(s) ==
    Bind(ScanOnce(s, SkipWs(s, 1)), LAMBDA r :
         IF r.ok /\ SkipWs(s, r.i) > Len(s) THEN r ELSE JsonFail)

-----------------------------------------------------------------------------
(* get_customized_resume_json: the service call and the decoding of its    *)
(* answer                                                                  *)

\* the fence marker, three backticks: a TLA+ string literal cannot hold the
\* character U+0060, which every text of the model writes as "~"
Fence == "~~~"

\* lines 126-131: the text handed to json.loads
StripFence(c) ==
    Bind(Strip(c), LAMBDA t :
         IF StartsWith(t, Fence \o "json") /\ EndsWith(t, Fence)
         THEN Strip(Slice(t, 8, Len(t) - 3))
         ELSE IF StartsWith(t, Fence) /\ EndsWith(t, Fence)
         THEN Strip(Slice(t, 4, Len(t) - 3))
         ELSE c)

\* lines 124-136, given the content of the response
DecodeContent(c) ==
    Bind(JsonLoads(StripFence(c)), LAMBDA r :
         IF r.ok
         THEN [success |-> TRUE, data |-> r.v, error |-> "", raw |-> c]
         ELSE [success |-> FALSE, data |-> PyNone, error |-> "JSON parsing error", raw |-> c])

\* lines 112-139; resp.raised stands for an exception of the API call
GetCustomizedResumeJson(resp) ==
    IF resp.raised
    THEN [success |-> FALSE, data |-> PyNone, error |-> "API error", raw |-> ""]
    ELSE DecodeContent(resp.content)

-----------------------------------------------------------------------------
(* The answers of the generative service: JSON texts in the format the     *)
(* prompt asks for, texts that depart from it, and fenced variants         *)

KeyOrder ==
    << "name", "contact_info", "location", "phone", "email", "linkedin", "github",
       "portfolio", "additional", "professional_summary", "skills", "work_experience",
       "title", "company", "degree", "institution", "duration", "achievements",
       "education", "details", "projects" >>

\* a JSON string literal for s
RECURSIVE Escape(_)
Escape(s) ==
    IF Len(s) = 0 THEN ""
    ELSE IF Len(s) = 1
    THEN (CASE s = "\"" -> "\\\"" [] s = "\\" -> "\\\\" [] s = "\n" -> "\\n" [] OTHER -> s)
    ELSE LET h == Len(s) \div 2
         IN Escape(SubSeq(s, 1, h)) \o Escape(SubSeq(s, h + 1, Len(s)))

RECURSIVE IntToStr(_)
IntToStr(n) == IF n < 10 THEN Ch(Digits, n + 1) ELSE IntToStr(n \div 10) \o Ch(Digits, (n % 10) + 1)

RECURSIVE Dumps(_)
RECURSIVE DumpsAll(_)
RECURSIVE DumpsItems(_, _)

DumpsAll(l) == IF l = <<>> THEN <<>> ELSE <<Dumps(l[1])>> \o DumpsAll(Tail(l))

DumpsItems(d, keys) ==
    IF keys = <<>> THEN <<>>
    ELSE (IF keys[1] \in DOMAIN d
          THEN <<"\"" \o keys[1] \o "\": " \o Dumps(d[keys[1]])>> ELSE <<>>)
         \o DumpsItems(d, Tail(keys))

\* the JSON text of a value, keys in the order of the template in the prompt
Dumps(v) ==
    CASE v.t = "null" -> "null"
      [] v.t = "str" -> "\"" \o Escape(v.s) \o "\""
      [] v.t = "num" -> IntToStr(v.n)
      [] v.t = "list" -> "[" \o Join(", ", DumpsAll(v.l)) \o "]"
      [] v.t = "dict" -> "{" \o Join(", ", DumpsItems(v.d, KeyOrder)) \o "}"

\* a dict with the keys of d except those in ks
Without(v, ks) == PyDict([k \in DOMAIN v.d \ ks |-> v.d[k]])

RECURSIVE StrList(_)
StrList(l) == IF l = <<>> THEN <<>> ELSE <<PyStr(l[1])>> \o StrList(Tail(l))

BaseContact ==
    PyDict([location |-> PyStr("Cork"), phone |-> PyStr("0871"), email |-> PyStr("j@x.io"),
            linkedin |-> PyStr("in/jd"), github |-> PyStr("gh/jd"),
            portfolio |-> PyStr("jd.dev"), additional |-> PyStr("@jd")])

\* an achievement longer than the bullet width
LongBullet == "Led the " \o Rep("re-design of the billing pipeline and ", 3) \o "more"

BaseJob ==
    PyDict([title |-> PyStr("Engineer"), company |-> PyStr("Acme Corp"),
            location |-> PyStr("Cork"), duration |-> PyStr("2020 to 2022"),
            achievements |-> PyList(StrList(<<"Built X", LongBullet>>))])

BaseEdu ==
    PyDict([degree |-> PyStr("BSc"), institution |-> PyStr("UCC"),
            location |-> PyStr("Cork"), duration |-> PyStr("2016 to 2020"),
            details |-> PyList(StrList(<<"First class">>))])

BaseProject ==
    PyDict([name |-> PyStr("resume-gen"), details |-> PyList(StrList(<<"Streamlit app">>))])

BaseDoc ==
    PyDict([name |-> PyStr("Jane Doe"), contact_info |-> BaseContact,
            professional_summary |-> PyStr("Engineer who ships."),
            skills |-> PyList(StrList(<<"Python", "Go">>)),
            work_experience |-> PyList(<<BaseJob>>),
            education |-> PyList(<<BaseEdu>>),
            projects |-> PyList(<<BaseProject>>)])

With(v, k, x) == SetKey(v, k, x)

\* documents that differ in which contact fields are there
ContactDocs ==
    { With(BaseDoc, "contact_info", Without(BaseContact, ks)) :
        ks \in (SUBSET {"location", "phone", "email"})
               \cup (SUBSET {"linkedin", "github", "portfolio", "additional"}) }

\* documents that differ in projects, skills and the entry lists
ListDocs ==
    { Without(BaseDoc, {"projects"}),
      With(BaseDoc, "projects", PyList(<<>>)),
      With(BaseDoc, "projects", PyNone),
      With(BaseDoc, "projects", PyList(<<BaseProject, With(BaseProject, "name", PyStr("p2"))>>)),
      With(BaseDoc, "skills", PyList(<<>>)),
      Without(BaseDoc, {"skills"}),
      With(BaseDoc, "work_experience", PyList(<<>>)),
      With(Without(BaseDoc, {"projects"}), "education", PyList(<<>>)),
      With(BaseDoc, "work_experience", PyList(<<Without(BaseJob, {"location", "duration"})>>)),
      With(BaseDoc, "work_experience", PyList(<<With(BaseJob, "title", PyStr("Engineer, Senior"))>>)),
      With(BaseDoc, "work_experience",
           PyList(<<With(BaseJob, "achievements", PyList(StrList(<<"", "  ", "Done">>)))>>)),
      PyDict([name |-> PyStr("Jane Doe"), skills |-> PyList(StrList(<<"Python", "Go">>))]) }

\* documents with a key missing or null where the template has a value
NullDocs ==
    { Without(BaseDoc, {"name"}),
      With(BaseDoc, "name", PyNone),
      With(BaseDoc, "professional_summary", PyNone),
      Without(BaseDoc, {"professional_summary"}),
      With(BaseDoc, "skills", PyNone),
      With(BaseDoc, "contact_info", PyNone),
      Without(BaseDoc, {"contact_info"}),
      With(BaseDoc, "contact_info", With(BaseContact, "email", PyNone)),
      With(BaseDoc, "contact_info", With(BaseContact, "phone", PyStr(""))),
      With(BaseDoc, "work_experience", PyList(<<With(BaseJob, "title", PyNone)>>)),
      With(BaseDoc, "work_experience", PyList(<<With(BaseJob, "location", PyNone)>>)),
      With(BaseDoc, "education", PyList(<<Without(BaseEdu, {"degree", "details"})>>)),
      With(BaseDoc, "projects", PyList(<<With(BaseProject, "name", PyNone)>>)) }

\* JSON values that are no object
NonObjects == { PyList(<<>>), PyNone, PyStr("Jane Doe"), PyNum(5), PyList(<<BaseDoc>>) }

Payloads == { Dumps(v) : v \in ContactDocs \cup ListDocs \cup NullDocs \cup NonObjects }

\* texts that json.loads rejects
Malformed ==
    LET good == Dumps(BaseDoc)
    IN { "", "Here is the resume:\n" \o good, SubSeq(good, 1, Len(good) - 1),
         "**Jane Doe**\n**Skills:**\n* Python", "{'name': 'Jane Doe'}" }

\* the payloads that are also tried inside a fenced block
FencedPayloads ==
    { Dumps(BaseDoc), "{\"name\":\"X\"}", "[]", "null", SubSeq(Dumps(BaseDoc), 2, 40), "" }

Tags == { "", "json", "JSON", "python", "jsonc" }

\* a payload in a fenced block with language tag g, between the paddings a and b
Fenced(g, a, p, b) == a \o Fence \o g \o "\n" \o p \o "\n" \o Fence \o b

FencedContents ==
    { Fenced(g, "", p, "") : g \in Tags, p \in FencedPayloads }
    \cup { Fenced(g, " \n", p, "\n") : g \in {"", "json"}, p \in {"{\"name\":\"X\"}"} }
    \cup { Fence \o g \o p \o Fence : g \in {"", "json"}, p \in {"{\"name\":\"X\"}"} }

\* response.choices[0].message.content
Contents == Payloads \cup Malformed \cup FencedContents

-----------------------------------------------------------------------------
(* Results of code that may raise: raised = TRUE stands for the exception  *)
(* (AttributeError, KeyError, TypeError) that ends the script run          *)

Done(out) == [raised |-> FALSE, out |-> out]

Raised == [raised |-> TRUE, out |-> <<>>]

RECURSIVE Concat(_)
Concat(seqs) == IF seqs = <<>> THEN <<>> ELSE seqs[1] \o Concat(Tail(seqs))

\* the statements rs one after the other: an exception in one of them ends the
\* function, and what the others wrote is lost with it
Steps(rs) ==
    IF \E k \in 1..Len(rs) : rs[k].raised THEN Raised
    ELSE Done(Concat([k \in 1..Len(rs) |-> rs[k].out]))

\* "for x in v": the documents of the model hold a list or None where the code
\* iterates, and None is not iterable
Iterable(v) == v.t = "list"

-----------------------------------------------------------------------------
(* create_text_resume(resume_data), src/app.py lines 141-221               *)

ContactKeys == <<"location", "phone", "email", "linkedin", "github", "portfolio", "additional">>

\* "if contact_info.get(k): parts.append(contact_info[k])" for the keys ks in order
RECURSIVE PresentValues(_, _)
PresentValues(ci, ks) ==
    IF ks = <<>> THEN <<>>
    ELSE (IF Truthy(Get(ci, ks[1], PyNone)) THEN <<ci.d[ks[1]].s>> ELSE <<>>)
         \o PresentValues(ci, Tail(ks))

\* lines 193-194, 207-208, 217-218: one "  + " line per achievement or detail
RECURSIVE TextSubBullets(_)
TextSubBullets(l) ==
    IF l = <<>> THEN <<>> ELSE <<"  + " \o FStr(l[1])>> \o TextSubBullets(Tail(l))

\* lines 186-195 and 200-209: the header line of a job or an education entry,
\* its sub-bullets and a blank line
TextEntry(e, k1, k2, subs) ==
    IF ~IsDict(e) THEN Raised
    ELSE LET h0 == "* " \o FStr(Get(e, k1, PyStr(""))) \o ", " \o FStr(Get(e, k2, PyStr("")))
             h1 == IF Truthy(Get(e, "location", PyNone))
                   THEN h0 \o " (" \o FStr(Get(e, "location", PyStr(""))) \o ")" ELSE h0
             h2 == IF Truthy(Get(e, "duration", PyNone))
                   THEN h1 \o " - " \o FStr(Get(e, "duration", PyStr(""))) ELSE h1
             l == Get(e, subs, PyList(<<>>))
         IN IF ~Iterable(l) THEN Raised
            ELSE Done(<<h2>> \o TextSubBullets(l.l) \o <<"">>)

\* lines 215-219
TextProject(e) ==
    IF ~IsDict(e) THEN Raised
    ELSE LET l == Get(e, "details", PyList(<<>>))
         IN IF ~Iterable(l) THEN Raised
            ELSE Done(<<"* " \o FStr(Get(e, "name", PyStr("")))>> \o TextSubBullets(l.l) \o <<"">>)

\* "for job in ...", "for edu in ...", "for project in ..."
TextJobs(l) == Steps([k \in 1..Len(l) |-> TextEntry(l[k], "title", "company", "achievements")])

TextEducation(l) == Steps([k \in 1..Len(l) |-> TextEntry(l[k], "degree", "institution", "details")])

TextProjects(l) == Steps([k \in 1..Len(l) |-> TextProject(l[k])])

\* lines 146-147
TextName(data) == Done(<<"**" \o FStr(Get(data, "name", PyStr("Name"))) \o "**", "">>)

\* lines 150-170
TextContact(data) ==
    LET ci == Get(data, "contact_info", PyDict(EmptyDict))
    IN IF ~IsDict(ci) THEN Raised
       ELSE Done(<<"**Contact Information:**", Join(" | ", PresentValues(ci, ContactKeys)), "">>)

\* lines 173-175; a summary that is no str fails the final "\n".join
TextSummary(data) ==
    LET v == Get(data, "professional_summary", PyStr(""))
    IN IF ~IsStr(v) THEN Raised ELSE Done(<<"**Professional Summary:**", v.s, "">>)

\* lines 178-181
TextSkills(data) ==
    LET v == Get(data, "skills", PyList(<<>>))
        Line(k) == "* " \o FStr(v.l[k])
    IN IF ~Iterable(v) THEN Raised
       ELSE Done(<<"**Skills:**">> \o [k \in 1..Len(v.l) |-> Line(k)] \o <<"">>)

\* lines 184-195
TextWork(data) ==
    LET v == Get(data, "work_experience", PyList(<<>>))
    IN IF ~Iterable(v) THEN Raised ELSE Steps(<<Done(<<"**Work Experience:**">>), TextJobs(v.l)>>)

\* lines 198-209
TextEdu(data) ==
    LET v == Get(data, "education", PyList(<<>>))
    IN IF ~Iterable(v) THEN Raised ELSE Steps(<<Done(<<"**Education:**">>), TextEducation(v.l)>>)

\* lines 212-219
TextProjectsSection(data) ==
    LET v == Get(data, "projects", PyNone)
    IN IF ~Truthy(v) THEN Done(<<>>)
       ELSE IF ~Iterable(v) THEN Raised
       ELSE Steps(<<Done(<<"**Personal Projects:**">>), TextProjects(v.l)>>)

\* the list text_resume before the final join
TextResumeLines(data) ==
    IF ~IsDict(data) THEN Raised
    ELSE Steps(<<TextName(data), TextContact(data), TextSummary(data), TextSkills(data),
                 TextWork(data), TextEdu(data), TextProjectsSection(data)>>)

\* create_text_resume(resume_data): out is the returned text
CreateTextResume(data) ==
    Bind(TextResumeLines(data), LAMBDA r :
         IF r.raised THEN [raised |-> TRUE, out |-> ""]
         ELSE [raised |-> FALSE, out |-> Join("\n", r.out)])

-----------------------------------------------------------------------------
(* The canvas: the FPDF calls a renderer makes, in order                   *)

\* width of the summary, contact and default paragraphs
SummaryWidth == 100

\* width of the achievement, detail and sub-bullet texts
BulletWidth == 85

\* pdf.cell(w, h, txt, border, ln, align, fill)
Cell(w, h, txt, border, ln, align, fill) ==
    [op |-> "cell", w |-> w, h |-> h, txt |-> txt, border |-> border, ln |-> ln,
     align |-> align, fill |-> fill]

\* pdf.ln(h)
Ln(h) == [op |-> "ln", h |-> h]

\* pdf.set_font('Arial', style, size)
SetFont(style, size) == [op |-> "font", style |-> style, size |-> size]

\* chr(149), the bullet glyph, which a TLA+ string literal cannot hold: no text
\* of the model holds a "#"
Bullet == "#"

\* a cell whose text is the Python value v: FPDF fails on a text that is no str
CellOf(w, h, v, border, ln, align) ==
    IF IsStr(v) THEN Done(<<Cell(w, h, v.s, border, ln, align, FALSE)>>) ELSE Raised

\* the section header: set_font, set_fill_color, a bordered filled cell, ln(1)
Banner(title) == <<SetFont("B", 12), Cell(0, 8, title, 1, 1, "L", TRUE), Ln(1)>>

\* the lines after the first of a wrapped bullet with the indent of the first
\* line, 10 wide
RECURSIVE ContinuationAtBase(_)
ContinuationAtBase(ls) ==
    IF ls = <<>> THEN <<>>
    ELSE <<Cell(10, 6, "", 0, 0, "", FALSE), Cell(0, 6, ls[1], 0, 1, "", FALSE)>>
         \o ContinuationAtBase(Tail(ls))

\* the lines after the first of a wrapped bullet: a 13 wide indent cell each
RECURSIVE Continuation(_)
Continuation(ls) ==
    IF ls = <<>> THEN <<>>
    ELSE <<Cell(13, 6, "", 0, 0, "", FALSE), Cell(0, 6, ls[1], 0, 1, "", FALSE)>>
         \o Continuation(Tail(ls))

\* src/app.py lines 336-345 (and 376-385, 405-414): one achievement or detail
PdfBullet(v) ==
    IF ~IsStr(v) THEN Raised
    ELSE Bind(Wrap(v.s, BulletWidth), LAMBDA ls :
              Done(<<Cell(10, 6, "", 0, 0, "", FALSE), Cell(3, 6, Bullet, 0, 0, "", FALSE)>>
                   \o (IF ls # <<>>
                       THEN <<Cell(0, 6, ls[1], 0, 1, "", FALSE)>> \o Continuation(Tail(ls))
                       ELSE <<>>)))

PdfBullets(l) == Steps([k \in 1..Len(l) |-> PdfBullet(l[k])])

-----------------------------------------------------------------------------
(* create_professional_pdf(resume_data, output_path), src/app.py 223-419   *)

\* lines 241-243
PdfName(data) ==
    Steps(<<Done(<<SetFont("B", 16)>>),
            CellOf(0, 10, Get(data, "name", PyStr("Name")), 0, 1, "C"), Done(<<Ln(2)>>)>>)

\* the first contact line with a part for each of the three fields, empty for
\* a field that is not there
ContactTextAllFields(ci) ==
    Join(" | ", [k \in 1..3 |->
                    IF Truthy(Get(ci, ContactKeys[k], PyNone)) THEN ci.d[ContactKeys[k]].s ELSE ""])

\* lines 253-263: the first contact line
ContactText(ci) == Join(" | ", PresentValues(ci, <<"location", "phone", "email">>))

\* the online profiles with a part for each of the four fields, a bare label
\* for a field that is not there
OnlineLinksAllFields(ci) ==
    <<"LinkedIn: " \o (IF Truthy(Get(ci, "linkedin", PyNone)) THEN ci.d["linkedin"].s ELSE ""),
      "GitHub: " \o (IF Truthy(Get(ci, "github", PyNone)) THEN ci.d["github"].s ELSE ""),
      "Portfolio: " \o (IF Truthy(Get(ci, "portfolio", PyNone)) THEN ci.d["portfolio"].s ELSE ""),
      IF Truthy(Get(ci, "additional", PyNone)) THEN ci.d["additional"].s ELSE "">>

\* lines 265-273: the labelled online profiles
OnlineLinks(ci) ==
    (IF Truthy(Get(ci, "linkedin", PyNone)) THEN <<"LinkedIn: " \o FStr(ci.d["linkedin"])>> ELSE <<>>)
    \o (IF Truthy(Get(ci, "github", PyNone)) THEN <<"GitHub: " \o FStr(ci.d["github"])>> ELSE <<>>)
    \o (IF Truthy(Get(ci, "portfolio", PyNone)) THEN <<"Portfolio: " \o FStr(ci.d["portfolio"])>> ELSE <<>>)
    \o (IF Truthy(Get(ci, "additional", PyNone)) THEN <<ci.d["additional"].s>> ELSE <<>>)

\* lines 246-279
PdfContact(data) ==
    LET ci == Get(data, "contact_info", PyDict(EmptyDict))
    IN IF ~IsDict(ci) THEN Raised
       ELSE Done(Banner("Contact Information") \o <<SetFont("", 10)>>
                 \o <<Cell(0, 6, ContactText(ci), 0, 1, "", FALSE)>>
                 \o (IF OnlineLinks(ci) # <<>>
                     THEN <<Cell(0, 6, Join(" | ", OnlineLinks(ci)), 0, 1, "", FALSE)>> ELSE <<>>)
                 \o <<Ln(5)>>)

\* lines 282-293
PdfSummary(data) ==
    LET v == Get(data, "professional_summary", PyStr(""))
    IN IF ~IsStr(v) THEN Raised
       ELSE Bind(Wrap(v.s, SummaryWidth), LAMBDA ls :
                 Done(Banner("Professional Summary") \o <<SetFont("", 10)>>
                      \o [k \in 1..Len(ls) |-> Cell(0, 6, ls[k], 0, 1, "", FALSE)]
                      \o <<Ln(5)>>))

\* lines 305-307
PdfSkillLines(l) ==
    Steps([k \in 1..Len(l) |->
              Steps(<<Done(<<Cell(5, 6, Bullet, 0, 0, "", FALSE)>>),
                      CellOf(0, 6, l[k], 0, 1, "")>>)])

\* lines 296-309
PdfSkills(data) ==
    LET v == Get(data, "skills", PyList(<<>>))
    IN IF ~Iterable(v) THEN Raised
       ELSE Steps(<<Done(Banner("Skills") \o <<SetFont("", 10)>>),
                    PdfSkillLines(v.l), Done(<<Ln(5)>>)>>)

\* lines 318-347 and 358-387: a job (title, company, achievements) or an
\* education entry (degree, institution, details)
PdfEntry(e, k1, k2, subs) ==
    IF ~IsDict(e) THEN Raised
    ELSE LET second == Get(e, k2, PyStr(""))
             loc == Get(e, "location", PyNone)
             dur == Get(e, "duration", PyNone)
             l == Get(e, subs, PyList(<<>>))
             line2 == IF Truthy(loc) THEN PyStr(second.s \o ", " \o FStr(loc)) ELSE second
         IN IF ~IsStr(second) \/ ~Iterable(l) THEN Raised
            ELSE Steps(<<Done(<<SetFont("B", 10)>>),
                         CellOf(0, 6, Get(e, k1, PyStr("")), 0, 1, ""),
                         Done(<<SetFont("I", 10)>>),
                         CellOf(0, 6, line2, 0, 1, ""),
                         IF Truthy(dur) THEN CellOf(0, 6, dur, 0, 1, "") ELSE Done(<<>>),
                         Done(<<SetFont("", 10)>>),
                         PdfBullets(l.l),
                         Done(<<Ln(3)>>)>>)

\* lines 398-416
PdfProject(e) ==
    IF ~IsDict(e) THEN Raised
    ELSE LET l == Get(e, "details", PyList(<<>>))
         IN IF ~Iterable(l) THEN Raised
            ELSE Steps(<<Done(<<SetFont("B", 10)>>),
                         CellOf(0, 6, Get(e, "name", PyStr("")), 0, 1, ""),
                         Done(<<SetFont("", 10)>>),
                         PdfBullets(l.l),
                         Done(<<Ln(3)>>)>>)

\* "for job in ...", "for edu in ...", "for project in ..."
PdfJobs(l) == Steps([k \in 1..Len(l) |-> PdfEntry(l[k], "title", "company", "achievements")])

PdfEducation(l) == Steps([k \in 1..Len(l) |-> PdfEntry(l[k], "degree", "institution", "details")])

PdfProjects(l) == Steps([k \in 1..Len(l) |-> PdfProject(l[k])])

\* lines 312-349
PdfWork(data) ==
    LET v == Get(data, "work_experience", PyList(<<>>))
    IN IF ~Iterable(v) THEN Raised
       ELSE Steps(<<Done(Banner("Work Experience")), PdfJobs(v.l), Done(<<Ln(5)>>)>>)

\* lines 352-387
PdfEdu(data) ==
    LET v == Get(data, "education", PyList(<<>>))
    IN IF ~Iterable(v) THEN Raised
       ELSE Steps(<<Done(Banner("Education")), PdfEducation(v.l)>>)

\* the projects section without the test "if resume_data.get('projects')"
PdfProjectsUnguarded(data) ==
    LET v == Get(data, "projects", PyList(<<>>))
    IN IF ~Iterable(v) THEN Raised
       ELSE Steps(<<Done(<<Ln(5)>> \o Banner("Personal Projects")), PdfProjects(v.l)>>)

\* lines 390-416
PdfProjectsSection(data) ==
    LET v == Get(data, "projects", PyNone)
    IN IF ~Truthy(v) THEN Done(<<>>)
       ELSE IF ~Iterable(v) THEN Raised
       ELSE Steps(<<Done(<<Ln(5)>> \o Banner("Personal Projects")), PdfProjects(v.l)>>)

\* create_professional_pdf(resume_data, output_path): out is the sequence of
\* canvas calls that pdf.output writes
CreateProfessionalPdf(data) ==
    IF ~IsDict(data) THEN Raised
    ELSE Steps(<<PdfName(data), PdfContact(data), PdfSummary(data), PdfSkills(data),
                 PdfWork(data), PdfEdu(data), PdfProjectsSection(data)>>)

-----------------------------------------------------------------------------
(* The editing interface of main(), src/app.py lines 543-664: every widget *)
(* returns what the user typed, or its default value                       *)

\* what the user may type in one script run: <<>> leaves a widget alone, <<x>>
\* enters x.  legacy tells how the Streamlit build treats a default of None:
\* older builds show str(None), newer ones return None for the empty widget
NoTyping == [name |-> <<>>, email |-> <<>>, skills |-> <<>>, projects |-> <<>>]

Typings ==
    { NoTyping,
      [NoTyping EXCEPT !.name = <<"Zed">>],
      [NoTyping EXCEPT !.email = <<"">>],
      [NoTyping EXCEPT !.skills = <<"">>],
      [NoTyping EXCEPT !.skills = <<" Rust \n\nGo">>],
      [NoTyping EXCEPT !.projects = <<0>>],
      [NoTyping EXCEPT !.projects = <<1>>] }

\* st.text_input / st.text_area(value=default)
TextInput(default, typed, legacy) ==
    IF typed # <<>> THEN PyStr(typed[1])
    ELSE IF IsStr(default) THEN default
    ELSE IF legacy THEN PyStr("None") ELSE PyNone

\* st.number_input(min_value=0, value=default)
NumberInput(default, typed) == IF typed # <<>> THEN typed[1] ELSE default

\* [x.strip() for x in text.split("\n") if x.strip()]
RECURSIVE StrippedLines(_)
StrippedLines(parts) ==
    IF parts = <<>> THEN <<>>
    ELSE (IF Strip(parts[1]) # "" THEN <<PyStr(Strip(parts[1]))>> ELSE <<>>)
         \o StrippedLines(Tail(parts))

\* lines 570-573 (and 597-600, 629-632, 656-659): a list shown one item per
\* line in a text area; "\n".join fails on None and on an item that is no str
EditLines(v, typed) ==
    IF ~Iterable(v) \/ \E k \in 1..Len(v.l) : ~IsStr(v.l[k])
    THEN [raised |-> TRUE, v |-> v]
    ELSE LET shownText == Join("\n", [k \in 1..Len(v.l) |-> v.l[k].s])
             got == IF typed # <<>> THEN typed[1] ELSE shownText
         IN [raised |-> FALSE, v |-> PyList(StrippedLines(Split(got, "\n")))]

\* d[k] = st.text_input(value=d.get(k, "")) for the keys ks in order
RECURSIVE EditFields(_, _, _)
EditFields(d, ks, legacy) ==
    IF ks = <<>> THEN d
    ELSE EditFields(SetKey(d, ks[1], TextInput(Get(d, ks[1], PyStr("")), <<>>, legacy)),
                    Tail(ks), legacy)

\* lines 554-562: the seven contact widgets
EditContact(ci, u, legacy) ==
    SetKey(EditFields(ci, ContactKeys, legacy), "email",
           TextInput(Get(ci, "email", PyStr("")), u.email, legacy))

\* lines 586-602 (618-634, 652-661): the widgets of one entry, which is mutated
\* in place; v is the entry as the failing widget leaves it
EditEntry(e, ks, subs, legacy) ==
    IF ~IsDict(e) THEN [raised |-> TRUE, v |-> e]
    ELSE Bind(EditFields(e, ks, legacy), LAMBDA e1 :
         Bind(EditLines(Get(e1, subs, PyList(<<>>)), <<>>), LAMBDA r :
         IF r.raised THEN [raised |-> TRUE, v |-> e1]
         ELSE [raised |-> FALSE, v |-> SetKey(e1, subs, r.v)]))

\* the loop "for i in range(count)": new is the list built so far, old the
\* stored list, whose entries the widgets mutate in place
RECURSIVE EditEntries(_, _, _, _, _, _, _)
EditEntries(old, i, count, new, ks, subs, legacy) ==
    IF i > count THEN [raised |-> FALSE, new |-> new, old |-> old]
    ELSE Bind(EditEntry(IF i > Len(old) THEN PyDict(EmptyDict) ELSE old[i], ks, subs, legacy),
              LAMBDA r :
         Bind(IF i > Len(old) THEN old ELSE [old EXCEPT ![i] = r.v], LAMBDA kept :
         IF r.raised THEN [raised |-> TRUE, new |-> new, old |-> kept]
         ELSE EditEntries(kept, i + 1, count, Append(new, r.v), ks, subs, legacy)))

\* lines 577-605, 609-637, 641-664: one tab with a list of entries; len() fails
\* on None
EditList(data, key, v, typed, ks, subs, legacy) ==
    IF ~Iterable(v) THEN [raised |-> TRUE, data |-> data]
    ELSE Bind(EditEntries(v.l, 1, NumberInput(Len(v.l), typed), <<>>, ks, subs, legacy),
              LAMBDA r :
         IF r.raised
         THEN [raised |-> TRUE,
               data |-> IF HasKey(data, key) THEN SetKey(data, key, PyList(r.old)) ELSE data]
         ELSE [raised |-> FALSE, data |-> SetKey(data, key, PyList(r.new))])

\* lines 543-664; data is resume_data as the run leaves it, also when a widget
\* or an assignment raises half way
EditPhase(data, u, legacy) ==
    IF ~IsDict(data) THEN [raised |-> TRUE, data |-> data]
    ELSE
    Bind(SetKey(data, "name", TextInput(Get(data, "name", PyStr("")), u.name, legacy)),
         LAMBDA d1 :
    Bind(Get(d1, "contact_info", PyDict(EmptyDict)), LAMBDA ci :
    IF ~IsDict(ci) \/ ~HasKey(d1, "contact_info") THEN [raised |-> TRUE, data |-> d1]
    ELSE
    Bind(SetKey(d1, "contact_info", EditContact(ci, u, legacy)), LAMBDA d2 :
    Bind(SetKey(d2, "professional_summary",
                TextInput(Get(d2, "professional_summary", PyStr("")), <<>>, legacy)),
         LAMBDA d3 :
    Bind(EditLines(Get(d3, "skills", PyList(<<>>)), u.skills), LAMBDA sk :
    IF sk.raised THEN [raised |-> TRUE, data |-> d3]
    ELSE
    Bind(SetKey(d3, "skills", sk.v), LAMBDA d4 :
    Bind(EditList(d4, "work_experience", Get(d4, "work_experience", PyList(<<>>)),
                  <<>>, <<"title", "company", "location", "duration">>,
                  "achievements", legacy), LAMBDA w :
    IF w.raised THEN w
    ELSE
    Bind(EditList(w.data, "education", Get(w.data, "education", PyList(<<>>)),
                  <<>>, <<"degree", "institution", "location", "duration">>,
                  "details", legacy), LAMBDA e :
    IF e.raised THEN e
    ELSE
    Bind(Get(e.data, "projects", PyList(<<>>)), LAMBDA pv :
    EditList(e.data, "projects", IF Truthy(pv) THEN pv ELSE PyList(<<>>),
             u.projects, <<"name">>, "details", legacy))))))))))

-----------------------------------------------------------------------------
(* The markup application, src/app-working-pdfnotwell.py                   *)

ErrorPrefix == "Error generating customized resume: "

\* get_customized_resume, lines 43-52: the content of the answer, or the text
\* of the exception after the prefix
GetCustomizedResume(resp) ==
    IF resp.raised THEN ErrorPrefix \o resp.content ELSE resp.content

\* section_pattern.match(line) for r'\*\*(.*?):\*\*': the line starts with "**"
\* and ":**" follows, at once or after the label
IsHeader(line) == StartsWith(line, "**") /\ Find(line, ":**", 3) > 0

\* match.group(1)
Label(line) == Slice(line, 3, Find(line, ":**", 3) - 1)

\* sections[label] = body: a dict keeps the place of a key it already holds
Put(sections, label, body) ==
    IF \E i \in 1..Len(sections) : sections[i].label = label
    THEN [i \in 1..Len(sections) |->
             IF sections[i].label = label THEN [label |-> label, body |-> body]
             ELSE sections[i]]
    ELSE Append(sections, [label |-> label, body |-> body])

\* lines 82-105: the loop over lines[1:]; cur is current_section, "" while it
\* is None or empty, body is current_content
RECURSIVE ParseLines(_, _, _, _, _)
ParseLines(lines, i, sections, cur, body) ==
    IF i > Len(lines)
    THEN IF cur # "" /\ body # <<>> THEN Put(sections, cur, body) ELSE sections
    ELSE IF IsHeader(lines[i])
    THEN ParseLines(lines, i + 1, IF cur # "" THEN Put(sections, cur, body) ELSE sections,
                    Label(lines[i]), <<>>)
    ELSE IF cur # ""
    THEN ParseLines(lines, i + 1, sections, cur, Append(body, Strip(lines[i])))
    ELSE ParseLines(lines, i + 1, sections, cur, body)

\* lines 72-105: the name and the sections of the content
ParseMarkup(c) ==
    Bind(Split(c, "\n"), LAMBDA lines :
         [name |-> StripChars(lines[1], "*"),
          sections |-> ParseLines(lines, 2, <<>>, "", <<>>)])

\* a line of text in a cell as wide as the page
TextCell(txt) == Cell(0, 6, txt, 0, 1, "", FALSE)

\* lines 121-126 and 210-212: a paragraph, wrapped
MarkupParagraph(line) ==
    Bind(Wrap(line, SummaryWidth), LAMBDA ls : [k \in 1..Len(ls) |-> TextCell(ls[k])])

\* lines 160-172 and 189-201: a "+" line, a bullet under a role or a project
MarkupBullet(line) ==
    Bind(Wrap(Strip(Slice(line, 2, Len(line))), BulletWidth), LAMBDA ls :
         <<Cell(10, 6, "", 0, 0, "", FALSE), Cell(3, 6, Bullet, 0, 0, "", FALSE)>>
         \o (IF ls # <<>> THEN <<TextCell(ls[1])>> \o Continuation(Tail(ls)) ELSE <<>>))

\* lines 145-146: line.strip('* ') and split(',', 1): the role and what is
\* written after it
MarkupRole(line) == SplitOnce(StripChars(line, "* "), ",")

\* lines 130-136
MarkupSkill(line) ==
    IF StartsWith(line, "*")
    THEN <<Cell(5, 6, Bullet, 0, 0, "", FALSE), TextCell(Strip(Slice(line, 2, Len(line))))>>
    ELSE IF line # "" THEN <<TextCell(line)>> ELSE <<>>

\* lines 142-175: a line of Work Experience or Education
MarkupEntryLine(line) ==
    IF StartsWith(line, "*")
    THEN Bind(MarkupRole(line), LAMBDA parts :
              IF Len(parts) >= 2
              THEN <<SetFont("B", 10), TextCell(parts[1]), SetFont("I", 10),
                     TextCell(parts[2]), SetFont("", 10)>>
              ELSE <<SetFont("B", 10), TextCell(parts[1]), SetFont("", 10)>>)
    ELSE IF StartsWith(line, "+") THEN MarkupBullet(line)
    ELSE IF line # "" THEN <<TextCell(line)>> ELSE <<>>

\* lines 181-204: a line of Personal Projects
MarkupProjectLine(line) ==
    IF StartsWith(line, "*")
    THEN <<SetFont("B", 10), TextCell(StripChars(line, "* ")), SetFont("", 10)>>
    ELSE IF StartsWith(line, "+") THEN MarkupBullet(line)
    ELSE IF line # "" THEN <<TextCell(line)>> ELSE <<>>

\* lines 119-212: the content of a section by its label
MarkupBody(label, body) ==
    IF label = "Contact Information"
    THEN MarkupParagraph(Join(" | ", SelectSeq(body, LAMBDA c : c # "")))
    ELSE IF label = "Skills"
    THEN Concat([k \in 1..Len(body) |-> MarkupSkill(body[k])])
    ELSE IF label = "Work Experience" \/ label = "Education"
    THEN Concat([k \in 1..Len(body) |-> MarkupEntryLine(body[k])])
    ELSE IF label = "Personal Projects"
    THEN Concat([k \in 1..Len(body) |-> MarkupProjectLine(body[k])])
    ELSE Concat([k \in 1..Len(body) |->
                    IF body[k] # "" THEN MarkupParagraph(body[k]) ELSE <<>>])

\* lines 108-214: header, content and ln(5)
MarkupSection(sec) ==
    Banner(sec.label) \o <<SetFont("", 10)>> \o MarkupBody(sec.label, sec.body) \o <<Ln(5)>>

\* create_professional_pdf(content, output_path) of the markup application,
\* given what it parsed: the canvas calls that pdf.output writes
MarkupPdf(p) ==
    <<SetFont("B", 16), Cell(0, 10, p.name, 0, 1, "C", FALSE), Ln(2)>>
    \o Concat([k \in 1..Len(p.sections) |-> MarkupSection(p.sections[k])])

-----------------------------------------------------------------------------
(* Specification Spec: the session of src/app.py.  Streamlit runs main()   *)
(* from the top on every interaction; session_state outlives the runs      *)

\* the session before the first script run
NoResult == [success |-> FALSE, data |-> PyNone, error |-> "", raw |-> ""]

NoSession ==
    /\ click = "none" /\ none_as_text = FALSE /\ resume_data = PyNone /\ generated = FALSE
    /\ content = "" /\ result = NoResult /\ shown = {} /\ preview = "" /\ tmp = 0
    /\ pdf = <<>> /\ edits = 0

NoWrap == text = "" /\ width = 0 /\ wrapped = <<>>

NoParse == parsed = [name |-> "", sections |-> <<>>]

\* most runs in which the user types into the editor
MaxEdits == 1

\* most temporary files on disk
MaxTmp == 1

\* the contents the service answers with in a session
SessionContents ==
    { Dumps(BaseDoc),
      Dumps(PyDict([name |-> PyStr("Jane Doe"), skills |-> PyList(StrList(<<"Python", "Go">>))])),
      Dumps(Without(BaseDoc, {"projects"})),
      Dumps(With(BaseDoc, "work_experience", PyList(<<With(BaseJob, "title", PyNone)>>))),
      Dumps(With(BaseDoc, "name", PyNone)),
      Dumps(With(BaseDoc, "skills", PyNone)),
      Dumps(PyList(<<>>)),
      Dumps(PyNone),
      "Here is the resume:\n" \o Dumps(BaseDoc),
      Fenced("json", "", Dumps(BaseDoc), ""),
      Fenced("python", "", "{\"name\":\"X\"}", "") }

\* the answers of client.chat.completions.create: a content, or an exception
Responses ==
    { [raised |-> FALSE, content |-> c] : c \in SessionContents }
    \cup { [raised |-> TRUE, content |-> ""] }

Init ==
    /\ pc = "idle"
    /\ click = "none"
    /\ none_as_text \in BOOLEAN
    /\ resume_data = PyNone
    /\ generated = FALSE
    /\ content = ""
    /\ result = NoResult
    /\ shown = {}
    /\ preview = ""
    /\ tmp = 0
    /\ pdf = <<>>
    /\ edits = 0
    /\ NoWrap
    /\ NoParse

\* a run that calls the service whenever the Generate button is pressed, also
\* after a generation has succeeded
StartRunCallsAgain ==
    /\ pc = "idle"
    /\ \E c \in {"generate", "rerun", "pdf", "start_over"}, filled \in BOOLEAN :
        /\ c = "pdf" => "pdf_button" \in shown /\ tmp < MaxTmp
        /\ c = "start_over" => "start_over" \in shown
        /\ click' = c
        /\ IF c = "generate" \/ generated
           THEN IF ~filled
                THEN pc' = "idle" /\ shown' = {"fill_error"}
                ELSE pc' = (IF generated /\ c # "generate" THEN "edit" ELSE "call")
                     /\ shown' = {}
           ELSE pc' = "idle" /\ shown' = {}
    /\ content' = ""
    /\ result' = NoResult
    /\ preview' = ""
    /\ pdf' = <<>>
    /\ UNCHANGED <<none_as_text, resume_data, generated, tmp, edits, text, width, wrapped, parsed>>

\* an interaction starts a run; lines 516-526.  c is the button pressed ("rerun"
\* for any other widget), filled tells whether the three inputs are filled in
StartRun ==
    /\ pc = "idle"
    /\ \E c \in {"generate", "rerun", "pdf", "start_over"}, filled \in BOOLEAN :
        /\ c = "pdf" => "pdf_button" \in shown /\ tmp < MaxTmp
        /\ c = "start_over" => "start_over" \in shown
        /\ click' = c
        /\ IF c = "generate" \/ generated
           THEN IF ~filled
                THEN pc' = "idle" /\ shown' = {"fill_error"}
                ELSE pc' = (IF generated THEN "edit" ELSE "call") /\ shown' = {}
           ELSE pc' = "idle" /\ shown' = {}
    /\ content' = ""
    /\ result' = NoResult
    /\ preview' = ""
    /\ pdf' = <<>>
    /\ UNCHANGED <<none_as_text, resume_data, generated, tmp, edits, text, width, wrapped, parsed>>

\* line 532: result = get_customized_resume_json(prompt_to_use, model)
CallService ==
    /\ pc = "call"
    /\ \E resp \in Responses :
        /\ content' = resp.content
        /\ result' = GetCustomizedResumeJson(resp)
    /\ pc' = "result"
    /\ UNCHANGED <<click, none_as_text, resume_data, generated, shown, preview, tmp, pdf, edits,
                   text, width, wrapped, parsed>>

\* lines 534-540: report the failure and stop, or store the data
StoreResult ==
    /\ pc = "result"
    /\ IF ~result.success
       THEN /\ shown' = {"error", "raw"}
            /\ pc' = "idle"
            /\ UNCHANGED <<resume_data, generated>>
       ELSE /\ resume_data' = result.data
            /\ generated' = TRUE
            /\ pc' = "edit"
            /\ UNCHANGED shown
    /\ UNCHANGED <<click, none_as_text, content, result, preview, tmp, pdf, edits, text, width,
                   wrapped, parsed>>

\* lines 543-669: the editing interface and the text preview; an exception
\* ends the run with the traceback on the page
EditResume ==
    /\ pc = "edit"
    /\ \E u \in Typings :
        /\ u # NoTyping => edits < MaxEdits
        /\ edits' = IF u # NoTyping THEN edits + 1 ELSE edits
        /\ \E r \in {EditPhase(resume_data, u, none_as_text)} :
            \E t \in {CreateTextResume(r.data)} :
                /\ resume_data' = r.data
                /\ IF r.raised \/ t.raised
                   THEN pc' = "idle" /\ shown' = {"exception"} /\ preview' = ""
                   ELSE pc' = "buttons" /\ shown' = {"editor", "preview"} /\ preview' = t.out
    /\ UNCHANGED <<click, none_as_text, generated, content, result, tmp, pdf, text, width, wrapped, parsed>>

\* lines 672-675: the Generate Final PDF button and the temporary file
PdfButton ==
    /\ pc = "buttons"
    /\ shown' = shown \cup {"pdf_button"}
    /\ IF click = "pdf"
       THEN tmp' = tmp + 1 /\ pc' = "render"
       ELSE tmp' = tmp /\ pc' = "start_over"
    /\ UNCHANGED <<click, none_as_text, resume_data, generated, content, result, preview, pdf,
                   edits, text, width, wrapped, parsed>>

\* line 678: create_professional_pdf(resume_data, tmp_path); the canvas may fail
\* to write the output
RenderPdf ==
    /\ pc = "render"
    /\ \E canvas_ok \in BOOLEAN, r \in {CreateProfessionalPdf(resume_data)} :
        IF r.raised \/ ~canvas_ok
        THEN pc' = "idle" /\ shown' = shown \cup {"exception"} /\ pdf' = <<>>
        ELSE pc' = "download" /\ shown' = shown /\ pdf' = r.out
    /\ UNCHANGED <<click, none_as_text, resume_data, generated, content, result, preview, tmp,
                   edits, text, width, wrapped, parsed>>

\* lines 681-687: open the file and hand it to st.download_button
Download ==
    /\ pc = "download"
    /\ \E open_ok \in BOOLEAN :
        IF open_ok
        THEN pc' = "unlink" /\ shown' = shown \cup {"download"}
        ELSE pc' = "idle" /\ shown' = shown \cup {"exception"}
    /\ UNCHANGED <<click, none_as_text, resume_data, generated, content, result, preview, tmp,
                   pdf, edits, text, width, wrapped, parsed>>

\* line 690: os.unlink(tmp_path)
Unlink ==
    /\ pc = "unlink"
    /\ tmp' = tmp - 1
    /\ pc' = "start_over"
    /\ UNCHANGED <<click, none_as_text, resume_data, generated, content, result, shown, preview,
                   pdf, edits, text, width, wrapped, parsed>>

\* lines 693-697: the Start Over button; st.experimental_rerun starts a run
\* that finds generated = False and draws only the inputs
StartOver ==
    /\ pc = "start_over"
    /\ IF click = "start_over"
       THEN resume_data' = PyNone /\ generated' = FALSE /\ shown' = {}
       ELSE UNCHANGED <<resume_data, generated>> /\ shown' = shown \cup {"start_over"}
    /\ pc' = "idle"
    /\ UNCHANGED <<click, none_as_text, content, result, preview, tmp, pdf, edits, text, width,
                   wrapped, parsed>>

Next ==
    \/ StartRun
    \/ CallService
    \/ StoreResult
    \/ EditResume
    \/ PdfButton
    \/ RenderPdf
    \/ Download
    \/ Unlink
    \/ StartOver

Spec == Init /\ [][Next]_vars

-----------------------------------------------------------------------------
(* Specification SpecDocument: the functions of src/app.py that take the   *)
(* content from the service to the text preview and the PDF, applied to    *)
(* every content in Contents                                               *)

InitDocument ==
    /\ pc = "decode"
    /\ content \in Contents
    /\ click = "none" /\ none_as_text = FALSE /\ resume_data = PyNone /\ generated = FALSE
    /\ result = NoResult /\ shown = {} /\ preview = "" /\ tmp = 0 /\ pdf = <<>> /\ edits = 0
    /\ NoWrap
    /\ NoParse

\* get_customized_resume_json on the content, lines 124-134
Decode ==
    /\ pc = "decode"
    /\ result' = GetCustomizedResumeJson([raised |-> FALSE, content |-> content])
    /\ resume_data' = IF result'.success THEN result'.data ELSE resume_data
    /\ pc' = IF result'.success THEN "text" ELSE "failed"
    /\ UNCHANGED <<click, none_as_text, generated, content, shown, preview, tmp, pdf, edits,
                   text, width, wrapped, parsed>>

\* create_text_resume(resume_data)
TextResume ==
    /\ pc = "text"
    /\ \E t \in {CreateTextResume(resume_data)} :
          /\ preview' = t.out
          /\ pc' = IF t.raised THEN "text_raised" ELSE "pdf"
    /\ UNCHANGED <<click, none_as_text, resume_data, generated, content, result, shown, tmp,
                   pdf, edits, text, width, wrapped, parsed>>

\* create_professional_pdf(resume_data, output_path)
ProfessionalPdf ==
    /\ pc = "pdf"
    /\ \E r \in {CreateProfessionalPdf(resume_data)} :
          /\ pdf' = r.out
          /\ pc' = IF r.raised THEN "pdf_raised" ELSE "rendered"
    /\ UNCHANGED <<click, none_as_text, resume_data, generated, content, result, shown,
                   preview, tmp, edits, text, width, wrapped, parsed>>

NextDocument ==
    \/ Decode
    \/ TextResume
    \/ ProfessionalPdf

SpecDocument == InitDocument /\ [][NextDocument]_vars

-----------------------------------------------------------------------------
(* Specification SpecMarkup: the session of the markup application,        *)
(* src/app-working-pdfnotwell.py, main() lines 219-281                     *)

\* the documents whose text form the service may answer with
Documents == ContactDocs \cup ListDocs \cup NullDocs

\* texts that are no resume in the markup format, or only part of one
OtherTexts ==
    { "", "Jane Doe\n**Skills:**", "**Jane Doe**\n\n**Skills:**\n* Python\n\n**Education:**",
      "**Jane Doe**\n\n**Skills:**\n\n**Education:**\n* BSc, UCC\n",
      "I cannot help with that request.", Dumps(BaseDoc),
      "Here is the resume:\n\n**Jane Doe**\n\n**Skills:**\n* Python\n" }

\* response.choices[0].message.content
MarkupContents == { CreateTextResume(d).out : d \in Documents } \cup OtherTexts

\* the answers of client.chat.completions.create: a content, or an exception
\* with its text
MarkupResponses ==
    { [raised |-> FALSE, content |-> c] : c \in MarkupContents }
    \cup { [raised |-> TRUE, content |-> "Connection error."] }

InitMarkup ==
    /\ pc = "idle"
    /\ NoSession
    /\ NoWrap
    /\ NoParse

\* an interaction starts a run, lines 226-254: only the Generate button with
\* the key and the three fields filled in goes on
MarkupStart ==
    /\ pc = "idle"
    /\ \E c \in {"generate", "rerun"}, api_key \in BOOLEAN, filled \in BOOLEAN :
        /\ c = "generate" => tmp < MaxTmp
        /\ click' = c
        /\ IF c # "generate" THEN pc' = "idle" /\ shown' = {}
           ELSE IF ~api_key THEN pc' = "idle" /\ shown' = {"key_error"}
           ELSE IF ~filled THEN pc' = "idle" /\ shown' = {"fill_error"}
           ELSE pc' = "call" /\ shown' = {}
    /\ content' = ""
    /\ preview' = ""
    /\ pdf' = <<>>
    /\ parsed' = [name |-> "", sections |-> <<>>]
    /\ UNCHANGED <<none_as_text, resume_data, generated, result, tmp, edits, text, width,
                   wrapped>>

\* line 257: customized_content = get_customized_resume(...)
MarkupCall ==
    /\ pc = "call"
    /\ \E resp \in MarkupResponses : content' = GetCustomizedResume(resp)
    /\ pc' = "tmp"
    /\ UNCHANGED <<click, none_as_text, resume_data, generated, result, shown, preview, tmp,
                   pdf, edits, text, width, wrapped, parsed>>

\* lines 260-261: tempfile.NamedTemporaryFile(delete=False)
MarkupTmp ==
    /\ pc = "tmp"
    /\ tmp' = tmp + 1
    /\ pc' = "render"
    /\ UNCHANGED <<click, none_as_text, resume_data, generated, content, result, shown,
                   preview, pdf, edits, text, width, wrapped, parsed>>

\* line 264: create_professional_pdf(customized_content, tmp_path); the canvas
\* may fail to write the output
MarkupRender ==
    /\ pc = "render"
    /\ \E canvas_ok \in BOOLEAN, p \in {ParseMarkup(content)} :
        IF canvas_ok
        THEN pc' = "preview" /\ parsed' = p /\ pdf' = MarkupPdf(p) /\ shown' = shown
        ELSE pc' = "idle" /\ parsed' = p /\ pdf' = <<>> /\ shown' = {"exception"}
    /\ UNCHANGED <<click, none_as_text, resume_data, generated, content, result, preview,
                   tmp, edits, text, width, wrapped>>

\* lines 267-268: the preview of the content
MarkupPreview ==
    /\ pc = "preview"
    /\ preview' = content
    /\ shown' = shown \cup {"preview"}
    /\ pc' = "download"
    /\ UNCHANGED <<click, none_as_text, resume_data, generated, content, result, tmp, pdf,
                   edits, text, width, wrapped, parsed>>

\* lines 271-277: open the file and hand it to st.download_button
MarkupDownload ==
    /\ pc = "download"
    /\ \E open_ok \in BOOLEAN :
        IF open_ok
        THEN pc' = "unlink" /\ shown' = shown \cup {"download"}
        ELSE pc' = "idle" /\ shown' = shown \cup {"exception"}
    /\ UNCHANGED <<click, none_as_text, resume_data, generated, content, result, preview,
                   tmp, pdf, edits, text, width, wrapped, parsed>>

\* line 280: os.unlink(tmp_path)
MarkupUnlink ==
    /\ pc = "unlink"
    /\ tmp' = tmp - 1
    /\ pc' = "idle"
    /\ UNCHANGED <<click, none_as_text, resume_data, generated, content, result, shown,
                   preview, pdf, edits, text, width, wrapped, parsed>>

NextMarkup ==
    \/ MarkupStart
    \/ MarkupCall
    \/ MarkupTmp
    \/ MarkupRender
    \/ MarkupPreview
    \/ MarkupDownload
    \/ MarkupUnlink

SpecMarkup == InitMarkup /\ [][NextMarkup]_vars

-----------------------------------------------------------------------------
(* Specification SpecRoundTrip: create_text_resume of src/app.py on a      *)
(* document, then the parser of the markup application on its text         *)

InitRoundTrip ==
    /\ pc = "serialize"
    /\ resume_data \in Documents
    /\ click = "none" /\ none_as_text = FALSE /\ generated = FALSE /\ content = ""
    /\ result = NoResult /\ shown = {} /\ preview = "" /\ tmp = 0 /\ pdf = <<>> /\ edits = 0
    /\ NoWrap
    /\ NoParse

\* content = create_text_resume(resume_data)
Serialize ==
    /\ pc = "serialize"
    /\ \E t \in {CreateTextResume(resume_data)} :
          /\ content' = t.out
          /\ pc' = IF t.raised THEN "text_raised" ELSE "parse"
    /\ UNCHANGED <<click, none_as_text, resume_data, generated, result, shown, preview, tmp,
                   pdf, edits, text, width, wrapped, parsed>>

\* lines 72-105 of create_professional_pdf(content, output_path)
Parse ==
    /\ pc = "parse"
    /\ parsed' = ParseMarkup(content)
    /\ pc' = "parsed"
    /\ UNCHANGED <<click, none_as_text, resume_data, generated, content, result, shown,
                   preview, tmp, pdf, edits, text, width, wrapped>>

NextRoundTrip ==
    \/ Serialize
    \/ Parse

SpecRoundTrip == InitRoundTrip /\ [][NextRoundTrip]_vars

-----------------------------------------------------------------------------
(* Specification SpecScan: create_professional_pdf(content, output_path)   *)
(* of src/app-working-pdfnotwell.py on texts made of a name line, lines    *)
(* before the first header, and blocks of a header line and its lines      *)

\* the header lines of the texts: three labels the renderer knows, a header
\* with text after it, and a header with an empty label
ScanHeaders ==
    { "**Skills:**", "**Work Experience:**", "**Education:**", "**Skills:** Python, Go",
      "**:**" }

\* the lines that follow a header
ScanBodies ==
    { <<>>,
      <<"Python, Go">>,
      <<"* Engineer, Acme Corp", "+ " \o LongBullet>>,
      <<"+ Built X", "* Engineer, Acme Corp", "+">>,
      <<"  **Education:**", "">>,
      <<"  * BSc, UCC  ", "x **Skills:**">> }

ScanBlocks == { <<h>> \o b : h \in ScanHeaders, b \in ScanBodies }

\* most blocks in a text
MaxBlocks == 2

\* the line sequences of n blocks
RECURSIVE BlockLines(_)
BlockLines(n) ==
    IF n = 0 THEN { <<>> }
    ELSE { b \o t : b \in ScanBlocks, t \in BlockLines(n - 1) }

ScanTexts ==
    { Join("\n", <<"Jane Doe">> \o pre \o t) :
        pre \in { <<>>, <<"Curriculum vitae">> },
        t \in UNION { BlockLines(n) : n \in 0..MaxBlocks } }

InitScan ==
    /\ pc = "scan"
    /\ content \in ScanTexts
    /\ click = "none" /\ none_as_text = FALSE /\ resume_data = PyNone /\ generated = FALSE
    /\ result = NoResult /\ shown = {} /\ preview = "" /\ tmp = 0 /\ pdf = <<>> /\ edits = 0
    /\ NoWrap
    /\ NoParse

\* lines 72-105: the name and the sections
Scan ==
    /\ pc = "scan"
    /\ parsed' = ParseMarkup(content)
    /\ pc' = "draw"
    /\ UNCHANGED <<click, none_as_text, resume_data, generated, content, result, shown,
                   preview, tmp, pdf, edits, text, width, wrapped>>

\* lines 76-79 and 107-214: the name and the sections on the canvas
Draw ==
    /\ pc = "draw"
    /\ pdf' = MarkupPdf(parsed)
    /\ pc' = "drawn"
    /\ UNCHANGED <<click, none_as_text, resume_data, generated, content, result, shown,
                   preview, tmp, edits, text, width, wrapped, parsed>>

NextScan ==
    \/ Scan
    \/ Draw

SpecScan == InitScan /\ [][NextScan]_vars

-----------------------------------------------------------------------------
(* Specification SpecWrap: textwrap.wrap applied to bounded body texts     *)

\* most tokens in a generated body text
MaxTokens == 2

\* the tokens tried for width w: short ones, ones around w, ones longer than w,
\* and hyphenated ones
WrapWords(w) ==
    { "a", Rep("b", w \div 2), Rep("c", w - 1), Rep("d", w), Rep("e", w + 1),
      Rep("f", 2 * w + 3), Rep("g", w \div 2) \o "-" \o Rep("h", w \div 2 + 1),
      "well-known" }

RECURSIVE WrapTexts(_, _)
WrapTexts(w, n) ==
    IF n = 0 THEN {""}
    ELSE LET shorter == WrapTexts(w, n - 1)
         IN shorter \cup { IF t = "" THEN x ELSE t \o " " \o x : t \in shorter, x \in WrapWords(w) }

InitWrap ==
    /\ pc = "wrap"
    /\ NoSession
    /\ width \in {SummaryWidth, BulletWidth}
    /\ text \in WrapTexts(width, MaxTokens)
    /\ wrapped = <<>>
    /\ NoParse

\* wrapped_lines = textwrap.wrap(text, width=width)
WrapText ==
    /\ pc = "wrap"
    /\ wrapped' = Wrap(text, width)
    /\ pc' = "wrapped"
    /\ UNCHANGED <<click, none_as_text, resume_data, generated, content, result, shown,
                   preview, tmp, pdf, edits, text, width, parsed>>

NextWrap == WrapText

SpecWrap == InitWrap /\ [][NextWrap]_vars

\* C2: every wrapped line is at most width characters long, except that a
\* whitespace-delimited token longer than width is emitted whole, alone on a
\* line of its own, and is never split across lines.
C2_WrapKeepsLongTokens ==
    pc = "wrapped" =>
        LET toks == Tokens(text)
            IsLine(x) == \E i \in 1..Len(wrapped) : wrapped[i] = x
        IN /\ \A i \in 1..Len(wrapped) :
                \/ Len(wrapped[i]) <= width
                \/ \E k \in 1..Len(toks) : Len(toks[k]) > width /\ wrapped[i] = toks[k]
           /\ \A k \in 1..Len(toks) : Len(toks[k]) > width => IsLine(toks[k])



-----------------------------------------------------------------------------
(* Specification SpecBullets: one achievement or detail drawn by the JSON  *)
(* renderer, src/app.py lines 335-345, or one "+" line drawn by the markup *)
(* renderer, src/app-working-pdfnotwell.py lines 160-172                   *)

\* the texts of an item: the body texts of the bullet width, and a blank one
BulletTexts == WrapTexts(BulletWidth, MaxTokens) \cup {"  "}

InitBullets ==
    /\ pc \in {"achievement", "sub_bullet"}
    /\ NoSession
    /\ text \in BulletTexts
    /\ width = BulletWidth
    /\ wrapped = <<>>
    /\ NoParse

\* src/app.py lines 335-345: the body of the loop over the achievements
DrawAchievement ==
    /\ pc = "achievement"
    /\ wrapped' = Wrap(text, width)
    /\ pdf' = PdfBullet(PyStr(text)).out
    /\ pc' = "item_drawn"
    /\ UNCHANGED <<click, none_as_text, resume_data, generated, content, result, shown,
                   preview, tmp, edits, text, width, parsed>>

\* src/app-working-pdfnotwell.py lines 101 and 160-172: the line as
\* create_text_resume writes it, stripped by the scanner, and its drawing
DrawSubBullet ==
    /\ pc = "sub_bullet"
    /\ \E line \in {Strip("  + " \o text)} :
          /\ wrapped' = Wrap(Strip(Slice(line, 2, Len(line))), width)
          /\ pdf' = MarkupBullet(line)
    /\ pc' = "line_drawn"
    /\ UNCHANGED <<click, none_as_text, resume_data, generated, content, result, shown,
                   preview, tmp, edits, text, width, parsed>>

NextBullets ==
    \/ DrawAchievement
    \/ DrawSubBullet

SpecBullets == InitBullets /\ [][NextBullets]_vars

-----------------------------------------------------------------------------
(* What the PDF and the preview show                                       *)

\* the indices of the section banners with the given title on the canvas
PdfBanners(title) ==
    { i \in 1..Len(pdf) : pdf[i].op = "cell" /\ pdf[i].fill /\ pdf[i].txt = title }

\* the text of the first contact line: the cell after the banner, ln(1) and
\* set_font
FirstContactLine == pdf[(CHOOSE i \in PdfBanners("Contact Information") : TRUE) + 3].txt

\* the indices of the header lines with the given title in the text preview
PreviewBanners(title) ==
    LET ls == Split(preview, "\n")
    IN { i \in 1..Len(ls) : ls[i] = "**" \o title \o ":**" }

\* a contact field is present when the document holds a non-empty text for it
Present(k) ==
    /\ IsDict(resume_data)
    /\ HasKey(resume_data, "contact_info")
    /\ IsDict(resume_data.d["contact_info"])
    /\ HasKey(resume_data.d["contact_info"], k)
    /\ IsStr(resume_data.d["contact_info"].d[k])
    /\ resume_data.d["contact_info"].d[k].s # ""

ContactValue(k) == resume_data.d["contact_info"].d[k].s

\* the labels of the parsed sections, in their order
SectionLabels == [k \in 1..Len(parsed.sections) |-> parsed.sections[k].label]

\* the body of the parsed section with the given label
SectionBody(label) ==
    IF \E k \in 1..Len(parsed.sections) : parsed.sections[k].label = label
    THEN parsed.sections[CHOOSE k \in 1..Len(parsed.sections) :
                             parsed.sections[k].label = label].body
    ELSE <<>>

\* the skills the parser reads: the "*" lines of the Skills section
ParsedSkills ==
    LET body == SectionBody("Skills")
        stars == SelectSeq(body, LAMBDA line : StartsWith(line, "*"))
    IN [k \in 1..Len(stars) |-> Strip(Slice(stars[k], 2, Len(stars[k])))]

\* the entries the parser reads in a section of roles: a "*" line starts an
\* entry with its role and what is written after the first comma, the "+"
\* lines after it are its bullets
RECURSIVE GroupEntries(_, _, _)
GroupEntries(body, i, acc) ==
    IF i > Len(body) THEN acc
    ELSE IF StartsWith(body[i], "*")
    THEN LET parts == MarkupRole(body[i])
         IN GroupEntries(body, i + 1,
                Append(acc, [title |-> Strip(parts[1]),
                             company |-> IF Len(parts) >= 2 THEN Strip(parts[2]) ELSE "",
                             subs |-> <<>>]))
    ELSE IF StartsWith(body[i], "+") /\ acc # <<>>
    THEN GroupEntries(body, i + 1,
             [acc EXCEPT ![Len(acc)].subs =
                  Append(@, Strip(Slice(body[i], 2, Len(body[i]))))])
    ELSE GroupEntries(body, i + 1, acc)

ParsedEntries(label) == GroupEntries(SectionBody(label), 1, <<>>)

\* a list of texts
IsStrList(v) == IsList(v) /\ \A k \in 1..Len(v.l) : IsStr(v.l[k])

\* a document with every field of the template but projects, each of its type
Document(v) ==
    /\ IsDict(v)
    /\ \A key \in {"name", "contact_info", "professional_summary", "skills",
                   "work_experience", "education"} : HasKey(v, key)
    /\ IsStr(v.d["name"])
    /\ IsStrList(v.d["skills"])
    /\ HasKey(v, "projects") => IsList(v.d["projects"])
    /\ IsList(v.d["work_experience"])
    /\ \A k \in 1..Len(v.d["work_experience"].l) :
          LET e == v.d["work_experience"].l[k]
          IN /\ IsDict(e)
             /\ \A key \in {"title", "company", "achievements"} : HasKey(e, key)
             /\ IsStr(e.d["title"]) /\ IsStr(e.d["company"])
             /\ IsStrList(e.d["achievements"])
    /\ IsList(v.d["education"])
    /\ \A k \in 1..Len(v.d["education"].l) :
          LET e == v.d["education"].l[k]
          IN /\ IsDict(e)
             /\ \A key \in {"degree", "institution", "details"} : HasKey(e, key)
             /\ IsStr(e.d["degree"]) /\ IsStr(e.d["institution"])
             /\ IsStrList(e.d["details"])

\* the texts of a list of texts, without the whitespace around them
Texts(v) == [k \in 1..Len(v.l) |-> Strip(v.l[k].s)]

\* the entries of the document under key, by title (k1), company (k2) and
\* bullets (subs)
DocEntries(key, k1, k2, subs) ==
    LET es == resume_data.d[key].l
    IN [k \in 1..Len(es) |->
           [title |-> Strip(es[k].d[k1].s), company |-> Strip(es[k].d[k2].s),
            subs |-> Texts(es[k].d[subs])]]

\* the sections of the document in the order of the template
DocLabels ==
    <<"Contact Information", "Professional Summary", "Skills", "Work Experience",
      "Education">>
    \o (IF HasKey(resume_data, "projects") /\ resume_data.d["projects"].l # <<>>
        THEN <<"Personal Projects">> ELSE <<>>)

\* the indices of the header lines with the given label in the content
ContentHeaders(label) ==
    LET ls == Split(content, "\n")
    IN { i \in 2..Len(ls) : IsHeader(ls[i]) /\ Label(ls[i]) = label }

\* a content in neither encoding: the text of a failure of the service, or a
\* text without a header line that does not decode to a JSON value either
NonConforming(c) ==
    \/ StartsWith(c, ErrorPrefix)
    \/ /\ \A label \in {"Contact Information", "Professional Summary", "Skills",
                        "Work Experience", "Education", "Personal Projects"} :
              Find(c, "**" \o label \o ":**", 1) = 0
       /\ ~DecodeContent(c).success

-----------------------------------------------------------------------------
(* Properties                                                              *)

\* C3: the first contact line is the present values of location, phone and
\* email, in that order, joined by " | ": no separator leads, trails or is
\* doubled; with only the email present the line is the email, with none
\* present it is empty.
C3_FirstContactLine ==
    pc = "rendered" =>
        LET l == Present("location")
            p == Present("phone")
            e == Present("email")
            line == FirstContactLine
        IN /\ l /\ p /\ e =>
                line = ContactValue("location") \o " | " \o ContactValue("phone")
                       \o " | " \o ContactValue("email")
           /\ l /\ p /\ ~e => line = ContactValue("location") \o " | " \o ContactValue("phone")
           /\ l /\ ~p /\ e => line = ContactValue("location") \o " | " \o ContactValue("email")
           /\ ~l /\ p /\ e => line = ContactValue("phone") \o " | " \o ContactValue("email")
           /\ l /\ ~p /\ ~e => line = ContactValue("location")
           /\ ~l /\ p /\ ~e => line = ContactValue("phone")
           /\ ~l /\ ~p /\ e => line = ContactValue("email")
           /\ ~l /\ ~p /\ ~e => line = ""
           /\ ~StartsWith(line, " | ")
           /\ ~EndsWith(line, " | ")
           /\ Find(line, " |  | ", 1) = 0

\* a document with only the email among the three fields has been rendered
C3_OnlyEmailRendered ==
    /\ pc = "rendered"
    /\ ~Present("location") /\ ~Present("phone") /\ Present("email")
    /\ FirstContactLine = "j@x.io"

\* C4: a document without the projects key, or with an empty projects list,
\* gives no Personal Projects banner in the PDF nor in the text preview; a
\* non-empty projects list gives the banner exactly once, after the Education
\* section.
C4_ProjectsBanner ==
    LET none == \/ ~HasKey(resume_data, "projects")
                \/ resume_data.d["projects"] = PyList(<<>>)
        some == /\ HasKey(resume_data, "projects")
                /\ IsList(resume_data.d["projects"])
                /\ resume_data.d["projects"].l # <<>>
    IN /\ pc \in {"pdf", "pdf_raised", "rendered"} =>
            /\ none => PreviewBanners("Personal Projects") = {}
            /\ some =>
                /\ Cardinality(PreviewBanners("Personal Projects")) = 1
                /\ Cardinality(PreviewBanners("Education")) = 1
                /\ \A i \in PreviewBanners("Education"), j \in PreviewBanners("Personal Projects") :
                       /\ i < j
                       /\ \A k \in PreviewBanners("Work Experience") \cup PreviewBanners("Skills") :
                              k < i
       /\ pc = "rendered" =>
            /\ none => PdfBanners("Personal Projects") = {}
            /\ some =>
                /\ Cardinality(PdfBanners("Personal Projects")) = 1
                /\ Cardinality(PdfBanners("Education")) = 1
                /\ \A i \in PdfBanners("Education"), j \in PdfBanners("Personal Projects") :
                       /\ i < j
                       /\ \A k \in 1..Len(pdf) : pdf[k].op = "cell" /\ pdf[k].fill => k <= j

\* a document without the projects key has been rendered, Education banner
\* and all
C4_NoProjectsRendered ==
    /\ pc = "rendered"
    /\ ~HasKey(resume_data, "projects")
    /\ PdfBanners("Education") # {}
    /\ PreviewBanners("Education") # {}

\* C6: a payload in a fenced block, whatever the language tag after the
\* opening fence, is decoded as the payload alone is: both succeed with the
\* same document, or both fail.
C6_FenceAnyTag ==
    pc # "decode" =>
        \A g \in Tags, p \in FencedPayloads :
            content = Fenced(g, "", p, "") =>
                /\ result.success = DecodeContent(p).success
                /\ result.data = DecodeContent(p).data

\* the types of the fields of a document, for the fields that are there
RightTypes(v) ==
    /\ IsDict(v)
    /\ HasKey(v, "name") => IsStr(v.d["name"])
    /\ HasKey(v, "contact_info") => IsDict(v.d["contact_info"])
    /\ HasKey(v, "professional_summary") => IsStr(v.d["professional_summary"])
    /\ \A key \in {"skills", "work_experience", "education", "projects"} :
           HasKey(v, key) => IsList(v.d[key])

\* C7: a content that does not decode to a document, be it malformed or of
\* the wrong types, gives success = false with the raw text unchanged; it is
\* never returned as a document.
C7_WrongTypesRejected ==
    pc # "decode" =>
        /\ result.success => RightTypes(result.data)
        /\ ~result.success => result.raw = content /\ result.data = PyNone

\* C8: neither the text preview nor the PDF holds the placeholder "None" for a
\* field that is absent or null.
C8_NoNonePlaceholder ==
    /\ Find(preview, "None", 1) = 0
    /\ \A i \in 1..Len(pdf) : pdf[i].op = "cell" => Find(pdf[i].txt, "None", 1) = 0

\* C9: when a script run has ended, no temporary file is left on disk.
C9_TempFileDeleted == pc = "idle" => tmp = 0

\* C1: serializing a document with create_text_resume and parsing the text
\* with the markup parser gives back the name, the sections in their order,
\* the skills, and for every work and education entry the title, the company
\* or institution (with location and duration not part of it) and the
\* bullets, whitespace around the texts aside.
C1_RoundTrip ==
    pc = "parsed" /\ Document(resume_data) =>
        /\ Strip(parsed.name) = Strip(resume_data.d["name"].s)
        /\ SectionLabels = DocLabels
        /\ ParsedSkills = Texts(resume_data.d["skills"])
        /\ ParsedEntries("Work Experience")
               = DocEntries("work_experience", "title", "company", "achievements")
        /\ ParsedEntries("Education")
               = DocEntries("education", "degree", "institution", "details")

\* C5: a content of the markup application with a Skills header line, once
\* rendered, has a Skills banner on the canvas, also when no line follows the
\* header and when the header is the last section.
C5_SkillsBanner ==
    pdf # <<>> /\ ContentHeaders("Skills") # {} => PdfBanners("Skills") # {}

\* C10: a content of the markup application that is in neither encoding, the
\* text of a failure of the service included, is never rendered to a PDF and
\* never offered for download.
C10_NonConformingReported ==
    NonConforming(content) => pdf = <<>> /\ "download" \notin shown

\* the lines of the content
ContentLines == Split(content, "\n")

\* a line that consists solely of "**", a label and ":**"
SoleHeader(line) == Len(line) >= 5 /\ StartsWith(line, "**") /\ EndsWith(line, ":**")

\* the literal label of such a line
SoleLabel(line) == Slice(line, 3, Len(line) - 3)

\* C11: once the content is scanned, every section comes from a line after
\* line 1 that consists solely of "**Label:**" and is keyed by that literal
\* label, and every such line with a label and a line of its own after it
\* opens a section; a line that only begins with the pattern, or holds it
\* after other text or whitespace, opens none.
C11_HeaderRecognition ==
    pc \in {"draw", "drawn"} =>
        /\ \A k \in 1..Len(parsed.sections) :
              \E i \in 2..Len(ContentLines) :
                  /\ SoleHeader(ContentLines[i])
                  /\ SoleLabel(ContentLines[i]) = parsed.sections[k].label
        /\ \A i \in 2..(Len(ContentLines) - 1) :
              /\ SoleHeader(ContentLines[i])
              /\ SoleLabel(ContentLines[i]) # ""
              /\ ~SoleHeader(ContentLines[i + 1])
              => \E k \in 1..Len(parsed.sections) :
                     parsed.sections[k].label = SoleLabel(ContentLines[i])

\* the indices of the lines the scanner takes as headers
HeaderIdx == { i \in 2..Len(ContentLines) : IsHeader(ContentLines[i]) }

\* the index of the next header after line i, or the one after the last line
NextHeader(i) ==
    LET later == { j \in HeaderIdx : j > i }
    IN IF later = {} THEN Len(ContentLines) + 1
       ELSE CHOOSE j \in later : \A h \in later : j <= h

\* the lines between header i and the next header, whitespace-trimmed
LinesOf(i) == [j \in 1..(NextHeader(i) - i - 1) |-> Strip(ContentLines[i + j])]

\* the body holds the lines ls, next to each other and in their order
Holds(body, ls) ==
    \E o \in 0..(Len(body) - Len(ls)) : SubSeq(body, o + 1, o + Len(ls)) = ls

\* C12: once the content is scanned, the lines between a header and the next
\* header (or the end) are held, trimmed and in order, by the section with
\* the label of that header, also when the label occurs in two headers or is
\* empty.
C12_LinesRetained ==
    pc \in {"draw", "drawn"} =>
        \A i \in HeaderIdx :
            LinesOf(i) # <<>> =>
                \E k \in 1..Len(parsed.sections) :
                    /\ parsed.sections[k].label = Label(ContentLines[i])
                    /\ Holds(parsed.sections[k].body, LinesOf(i))

\* the body without the "+" lines that stand before its first "*" line
RECURSIVE DropOrphans(_)
DropOrphans(body) ==
    IF body = <<>> \/ StartsWith(body[1], "*") THEN body
    ELSE IF StartsWith(body[1], "+") THEN DropOrphans(Tail(body))
    ELSE <<body[1]>> \o DropOrphans(Tail(body))

\* the parsed content without such lines in Work Experience and Education
WithoutOrphans(p) ==
    [name |-> p.name,
     sections |-> [k \in 1..Len(p.sections) |->
                      IF p.sections[k].label \in {"Work Experience", "Education"}
                      THEN [label |-> p.sections[k].label,
                            body |-> DropOrphans(p.sections[k].body)]
                      ELSE p.sections[k]]]

\* C13: in a Work Experience or Education section a "+" line before the
\* first "*" line is discarded: what is drawn is what is drawn without it,
\* the entries after it included.
C13_OrphanSubBulletDiscarded ==
    pc = "drawn" => pdf = MarkupPdf(WithoutOrphans(parsed))

\* the sections in the order of the document
SectionOrder ==
    <<"Contact Information", "Professional Summary", "Skills", "Work Experience",
      "Education", "Personal Projects">>

\* the place of a title in that order
Rank(title) == CHOOSE r \in 1..Len(SectionOrder) : SectionOrder[r] = title

\* the indices of the banners of these sections on the canvas
BannerIdx ==
    { i \in 1..Len(pdf) :
        /\ pdf[i].op = "cell"
        /\ pdf[i].fill
        /\ \E r \in 1..Len(SectionOrder) : SectionOrder[r] = pdf[i].txt }

\* C14: the banners on the canvas of the markup renderer stand in the order
\* Contact Information, Professional Summary, Skills, Work Experience,
\* Education, Personal Projects, whatever the order of the headers in the
\* content.
C14_SectionOrder ==
    pc = "drawn" =>
        \A i, j \in BannerIdx : i < j => Rank(pdf[i].txt) < Rank(pdf[j].txt)

\* a cell without text that moves the cursor to the right
IsIndent(c) == c.op = "cell" /\ c.txt = "" /\ c.ln = 0

\* a cell with the text of a line that ends the line
IsTextLine(c, txt) == c.op = "cell" /\ c.txt = txt /\ c.ln = 1

\* C15: an achievement, detail or sub-bullet whose text wraps to more than
\* one line is drawn with the bullet glyph after the base indent on its first
\* line, and each continuation line is an indent strictly wider than the
\* base indent and the text, without a glyph.
C15_HangingIndent ==
    pc \in {"item_drawn", "line_drawn"} /\ Len(wrapped) > 1 =>
        /\ Len(pdf) = 2 * Len(wrapped) + 1
        /\ IsIndent(pdf[1])
        /\ pdf[2].op = "cell" /\ pdf[2].txt = Bullet /\ pdf[2].ln = 0
        /\ IsTextLine(pdf[3], wrapped[1])
        /\ \A k \in 2..Len(wrapped) :
              /\ IsIndent(pdf[2 * k])
              /\ pdf[2 * k].w > pdf[1].w
              /\ IsTextLine(pdf[2 * k + 1], wrapped[k])

\* an item whose text wraps to three lines has been drawn, its last line
\* after an indent of 13
C15_ThreeLinesDrawn ==
    /\ pc \in {"item_drawn", "line_drawn"}
    /\ Len(wrapped) = 3
    /\ Len(pdf) = 7
    /\ pdf[6].w = 13

\* the part of a contact field on the second contact line: nothing when the
\* field is absent
LinkPart(k, prefix) == IF Present(k) THEN <<prefix \o ContactValue(k)>> ELSE <<>>

\* the parts of the second contact line by the document
ExpectedLinks ==
    LinkPart("linkedin", "LinkedIn: ") \o LinkPart("github", "GitHub: ")
    \o LinkPart("portfolio", "Portfolio: ") \o LinkPart("additional", "")

\* what follows the first contact line on the canvas
AfterFirstContactLine(n) == pdf[(CHOOSE i \in PdfBanners("Contact Information") : TRUE) + 3 + n]

\* C16: the second contact line is drawn if and only if one of linkedin,
\* github, portfolio and additional is present; it is the present fields in
\* that order joined by " | ", the first three after their label and a colon,
\* additional as it is, and nothing for an absent field.
C16_SecondContactLine ==
    pc = "rendered" =>
        IF ExpectedLinks # <<>>
        THEN /\ IsTextLine(AfterFirstContactLine(1), Join(" | ", ExpectedLinks))
             /\ AfterFirstContactLine(2) = Ln(5)
        ELSE AfterFirstContactLine(1) = Ln(5)

\* a document with github and additional alone among the four has been
\* rendered
C16_GithubAndAdditionalRendered ==
    /\ pc = "rendered"
    /\ ~Present("linkedin") /\ Present("github") /\ ~Present("portfolio")
    /\ Present("additional")
    /\ AfterFirstContactLine(1).txt = "GitHub: gh/jd | @jd"

\* C17: with a decoded document whose fields, where present, have the types
\* of the template, no run of the session ends in an exception of the edit
\* phase or the text preview: an absent optional field, contact_info
\* included, reads as empty.
C17_AbsentFieldsNeverThrow ==
    RightTypes(resume_data) => shown # {"exception"}

\* C18: in every state of the session generated is true if and only if
\* resume_data holds a document, that is, is not None.
C18_GeneratedIffDocument ==
    generated <=> resume_data # PyNone

\* C19: the service is called only in a run in which generated is false:
\* while generated holds no step leads to the call, until Start Over resets
\* it; a failed generation leaves generated false and resume_data as it was
\* and ends the run before the editing interface and the rendering.
C19_ServiceCalledOnce ==
    [][/\ pc = "call" => ~generated
       /\ generated => pc' # "call"
       /\ pc = "result" /\ ~result.success =>
             /\ ~generated /\ ~generated'
             /\ resume_data' = resume_data
             /\ pc' = "idle"]_vars

\* after a generation has succeeded, a later run has drawn the editor and the
\* preview without a call of the service: the content of a call is not there
C19_RerunWithoutCall ==
    /\ generated
    /\ click \in {"rerun", "generate", "pdf"}
    /\ pc = "buttons"
    /\ content = ""

\* C20: every item drawn, one with an empty or blank text included, is the
\* indent cell, the bullet glyph and at least one text cell that ends the
\* line, so that the cursor is back at the left margin after the item.
C20_BulletLineTerminated ==
    pc \in {"item_drawn", "line_drawn"} =>
        /\ Len(pdf) >= 3
        /\ pdf[Len(pdf)].op = "cell"
        /\ pdf[Len(pdf)].ln = 1

====
